---- MODULE Spec2Model ----
(***************************************************************************)
(* Model of main/main.c: start-up in app_main, then the UART receive -     *)
(* persist - replay - erase cycle of rx_task, tx_task and sendData, with   *)
(* the UART driver, the NVS store and the FreeRTOS tick counter as the     *)
(* environment the code calls into.  ResetSpec adds loss of power.         *)
(*                                                                         *)
(* Scaling.  RX_BUF_SIZE is 1024 in main.c:25; the model keeps every       *)
(* expression of the code over RX_BUF_SIZE (RX_BUF_SIZE * 2, RX_BUF_SIZE   *)
(* + 1, ...) and runs it with a small value.  TickType_t is 32 bits wide;  *)
(* the model keeps the modular arithmetic with TickBits bits.              *)
(***************************************************************************)
EXTENDS Integers, Sequences, FiniteSets, TLC

\* ---------------------------------------------------------------- bounds
RX_BUF_SIZE == 3      \* main.c:25, scaled down from 1024
TickBits    == 1      \* width of TickType_t, scaled down from 32
GarbageMax  == 1      \* length of the C string found in uninitialised memory

\* Bytes the link offers in one run of the model: more than one receive
\* call accepts, so that a second call has something left to take.
MaxOffered == RX_BUF_SIZE + 1

NonNull == {1}                \* the non-zero byte values
Bytes   == {0} \cup NonNull   \* 0 is the null byte

TickMod == 2 ^ TickBits

VARIABLES
    driver,     \* TRUE when uart_driver_install has installed the UART driver
    my_handle,  \* main.c:22: 0 (no handle) or 1, the handle nvs_open gave
    tasks,      \* the tasks app_main has created, by name
    pc,         \* position of the code: app_main, then the single task
                \* (rx_task and what it calls)
    ring,       \* UART driver RX ring buffer: bytes arrived, not yet read
    offered,    \* number of bytes the link has delivered so far
    tick,       \* xTaskGetTickCount()
    rx,         \* rx_task locals  : start_time, time_taken, rxBytes, speed
    data,       \* rx_task's buffer: the bytes data[0 .. ] written this iteration
    payload,    \* the bytes the receive call of this iteration returned
    nvs,        \* the handle's view of namespace "storage": key -> string
    flash,      \* the committed (durable) content of the namespace
    tx,         \* tx_task/sendData locals: data, len, start_time, time_taken,
                \* txBytes, speed
    ret,        \* the status each store call returned (all ignored by the
                \* code) since the last receive call
    ops,        \* the Transport/Store operations called since the receive call
    wire        \* the transmit call of this replay: << >>, or <<bytes handed to
                \* uart_write_bytes>>

\* What start-up leaves behind; no step of the task changes it.
boot == <<driver, my_handle, tasks>>

vars == <<driver, my_handle, tasks, pc, ring, offered, tick, rx, data, payload,
          nvs, flash, tx, ret, ops, wire>>

\* ------------------------------------------------------------- C helpers
Min(a, b) == IF a < b THEN a ELSE b

\* Sequences over S of length 0..n.
SeqUpTo(S, n) == UNION {[1..k -> S] : k \in 0..n}

\* strlen(buf): index of the first null byte; buf always holds one here.
strlen(buf) == CHOOSE i \in 0..Len(buf) :
                  /\ \A j \in 1..i : buf[j] # 0
                  /\ (i < Len(buf) => buf[i + 1] = 0)

\* The C string a char* denotes: the bytes before the first null byte.
CStr(buf) == SubSeq(buf, 1, strlen(buf))

\* Mutant of NullTerminate: the terminator one place early, data[rxBytes - 1] = 0.
NullTerminate_OneEarly(buf, n) == Append(SubSeq(buf, 1, n - 1), 0)

\* data[rxBytes] = 0 (main.c:118): data[0..rxBytes-1] are the bytes received.
NullTerminate(buf, n) == Append(SubSeq(buf, 1, n), 0)

\* Mutant of TickDiff: the subtraction done on signed integers.
TickDiff_Signed(end, start) == end - start

\* end_time - start_time on TickType_t: unsigned, wraps modulo 2^width.
TickDiff(end, start) == (end - start) % TickMod

\* (bytes / time_taken) * configTICK_RATE_HZ in float arithmetic.  A finite
\* quotient is kept as the exact ratio bytes : ticks (the tick rate is a
\* positive constant factor); division by zero gives IEEE infinity or NaN.
FloatValue(class, bytes, ticks) == [class |-> class, bytes |-> bytes, ticks |-> ticks]
NoSpeed == FloatValue("none", 0, 0)
FloatSpeed(bytes, time_taken) ==
    IF time_taken # 0 THEN FloatValue("finite", bytes, time_taken)
    ELSE IF bytes = 0 THEN FloatValue("nan", 0, 0)
    ELSE IF bytes > 0 THEN FloatValue("inf", 0, 0)
    ELSE FloatValue("-inf", 0, 0)

\* ------------------------------------------------------------------ UART
\* uart_driver_install(UART_NUM_1, RX_BUF_SIZE * 2, 0, ...): RX ring size.
RxRingSize == RX_BUF_SIZE * 2

\* Mutant of uart_read_len: the size of the buffer, RX_BUF_SIZE + 1, is passed
\* as the length to read.
uart_read_len_BufferSize(avail) == Min(avail, RX_BUF_SIZE + 1)

\* uart_read_bytes(UART_NUM_1, data, RX_BUF_SIZE, timeout): the number of
\* bytes taken from the ring (0 on timeout with nothing buffered).
uart_read_len(avail) == Min(avail, RX_BUF_SIZE)

\* malloc(RX_BUF_SIZE + 1): the size of rx_task's buffer (main.c:108).
RxBufBytes == RX_BUF_SIZE + 1

\* ------------------------------------------------------------------- NVS
Key == "uart"
EmptyStore == [k \in {} |-> <<>>]

\* Mutant of nvs_set_str: the string is appended to the value under key.
nvs_set_str_Append(store, key, str) ==
    [k \in (DOMAIN store) \cup {key} |->
        IF k = key
        THEN (IF key \in DOMAIN store THEN store[key] ELSE <<>>) \o CStr(str)
        ELSE store[k]]

\* nvs_set_str(handle, key, str) on success: replace the value under key.
nvs_set_str(store, key, str) ==
    [k \in (DOMAIN store) \cup {key} |-> IF k = key THEN CStr(str) ELSE store[k]]

\* Mutant of nvs_erase_all: the erase leaves the namespace as it is.
nvs_erase_all_Nothing(store) == store

\* nvs_erase_all(handle) on success: no key is left in the namespace.
nvs_erase_all(store) == EmptyStore

\* nvs_get_str(handle, key, out, &length) with out != NULL: the status.
nvs_get_status(store, key, length) ==
    IF key \notin DOMAIN store THEN "NOT_FOUND"
    ELSE IF Len(store[key]) + 1 > length THEN "INVALID_LENGTH"
    ELSE "OK"

\* ... and the buffer it leaves: the string and its terminator on success,
\* the buffer untouched otherwise.
nvs_get_str(store, key, out, length) ==
    IF nvs_get_status(store, key, length) = "OK" THEN Append(store[key], 0)
    ELSE out

\* The outcomes of a store call that changes or commits the namespace: it
\* succeeds or fails on a handle nvs_open gave, and fails on handle 0
\* (ESP_ERR_NVS_INVALID_HANDLE).
nvs_call_ok(handle) == IF handle # 0 THEN BOOLEAN ELSE {FALSE}

\* malloc(RX_BUF_SIZE) returns uninitialised memory: read as a C string it
\* is any run of non-zero bytes, possibly longer than the block.
Garbage == {Append(g, 0) : g \in SeqUpTo(NonNull, GarbageMax)}

\* ----------------------------------------------------------------- state
NoRet  == [set |-> "-", commit |-> "-", get |-> "-", erase |-> "-", commit2 |-> "-"]
NoRx   == [start_time |-> 0, time_taken |-> 0, rxBytes |-> 0, speed |-> NoSpeed]
NoTx   == [data |-> <<>>, len |-> 0, start_time |-> 0, time_taken |-> 0,
           txBytes |-> 0, speed |-> NoSpeed]
NoWire == <<>>

Init ==
    /\ driver = FALSE
    /\ my_handle = 0
    /\ tasks = {}
    /\ pc = "app_main"
    /\ ring = <<>>
    /\ offered = 0
    /\ tick \in 0..(TickMod - 1)
    /\ rx = NoRx
    /\ data = <<>>
    /\ payload = <<>>
    /\ nvs = EmptyStore
    /\ flash = EmptyStore
    /\ tx = NoTx
    /\ ret = NoRet
    /\ ops = <<>>
    /\ wire = NoWire

\* ----------------------------------------------------------- environment
\* A byte arrives on the RX line and the installed driver's ISR puts it in
\* the ring.
\* (A byte arriving while the ring is full is discarded by the driver.)
LinkArrive ==
    /\ driver
    /\ offered < MaxOffered
    /\ Len(ring) < RxRingSize
    /\ \E b \in Bytes : ring' = Append(ring, b)
    /\ offered' = offered + 1
    /\ UNCHANGED <<boot, pc, tick, rx, data, payload, nvs, flash, tx, ret, ops, wire>>

\* The tick interrupt.
Tick ==
    /\ tick' = (tick + 1) % TickMod
    /\ UNCHANGED <<boot, pc, ring, offered, rx, data, payload, nvs, flash, tx, ret, ops, wire>>

\* -------------------------------------------------------------- app_main
\* main.c:145,37-51  uart_init(): uart_driver_install, uart_param_config and
\* uart_set_pin; each may fail, no status is looked at.  The driver is
\* installed, or it is not.
app_uart_init ==
    /\ pc = "app_main"
    /\ driver' \in BOOLEAN
    /\ pc' = "app_nvs"
    /\ UNCHANGED <<my_handle, tasks, ring, offered, tick, rx, data, payload,
                   nvs, flash, tx, ret, ops, wire>>

\* main.c:146-147  nvs_flash_init(); nvs_open("storage", NVS_READWRITE,
\* &my_handle); no status is looked at.  When either fails my_handle stays 0.
app_nvs_open ==
    /\ pc = "app_nvs"
    /\ my_handle' \in {0, 1}
    /\ pc' = "app_create"
    /\ UNCHANGED <<driver, tasks, ring, offered, tick, rx, data, payload,
                   nvs, flash, tx, ret, ops, wire>>

\* Mutant of app_xTaskCreate: tx_task is given a task of its own next to
\* rx_task.
app_xTaskCreate_Two ==
    /\ pc = "app_create"
    /\ tasks' = tasks \cup {"uart_rx_task", "uart_tx_task"}
    /\ pc' = "rx_start"
    /\ UNCHANGED <<driver, my_handle, ring, offered, tick, rx, data, payload,
                   nvs, flash, tx, ret, ops, wire>>

\* main.c:150  xTaskCreate(rx_task, "uart_rx_task", ...): the one task is
\* created (there is memory for its stack at start-up) and starts rx_task.
app_xTaskCreate ==
    /\ pc = "app_create"
    /\ tasks' = tasks \cup {"uart_rx_task"}
    /\ pc' = "rx_start"
    /\ UNCHANGED <<driver, my_handle, ring, offered, tick, rx, data, payload,
                   nvs, flash, tx, ret, ops, wire>>

\* --------------------------------------------------------------- rx_task
\* main.c:110-113  log, start_time = xTaskGetTickCount()
rx_start ==
    /\ pc = "rx_start"
    /\ rx' = [rx EXCEPT !.start_time = tick]
    /\ pc' = "rx_read"
    /\ UNCHANGED <<boot, ring, offered, tick, data, payload, nvs, flash, tx, ret, ops, wire>>

\* Mutant of rx_read_ok: what the call does not return is flushed from the
\* ring (as after uart_flush).
rx_read_ok_Flush ==
    /\ pc = "rx_read"
    /\ driver
    /\ LET n == Min(Len(ring), RX_BUF_SIZE) IN
         /\ rx' = [rx EXCEPT !.rxBytes = n]
         /\ data' = IF n > 0 THEN SubSeq(ring, 1, n) ELSE data
         /\ payload' = SubSeq(ring, 1, n)
    /\ ring' = <<>>
    /\ ret' = NoRet
    /\ ops' = <<>>
    /\ pc' = "rx_end"
    /\ UNCHANGED <<boot, offered, tick, nvs, flash, tx, wire>>

\* main.c:114  rxBytes = uart_read_bytes(UART_NUM_1, data, RX_BUF_SIZE, 1 s)
rx_read_ok ==
    /\ pc = "rx_read"
    /\ driver
    /\ LET n == uart_read_len(Len(ring)) IN
         /\ rx' = [rx EXCEPT !.rxBytes = n]
         /\ data' = IF n > 0 THEN SubSeq(ring, 1, n) ELSE data
         /\ payload' = SubSeq(ring, 1, n)
         /\ ring' = SubSeq(ring, n + 1, Len(ring))
    /\ ret' = NoRet
    /\ ops' = <<>>
    /\ pc' = "rx_end"
    /\ UNCHANGED <<boot, offered, tick, nvs, flash, tx, wire>>

\* main.c:114  uart_read_bytes fails (always, when no driver is installed):
\* it returns -1 and reads nothing
rx_read_err ==
    /\ pc = "rx_read"
    /\ rx' = [rx EXCEPT !.rxBytes = -1]
    /\ payload' = <<>>
    /\ ret' = NoRet
    /\ ops' = <<>>
    /\ pc' = "rx_end"
    /\ UNCHANGED <<boot, ring, offered, tick, data, nvs, flash, tx, wire>>

\* main.c:115  end_time = xTaskGetTickCount(); the two samples are read
\* only by time_taken = end_time - start_time (main.c:125), taken here
rx_end ==
    /\ pc = "rx_end"
    /\ rx' = [rx EXCEPT !.time_taken = TickDiff(tick, rx.start_time)]
    /\ pc' = "rx_check"
    /\ UNCHANGED <<boot, ring, offered, tick, data, payload, nvs, flash, tx, ret, ops, wire>>

\* Mutant of rx_has_data: if (rxBytes >= 0), true of an empty read too.
rx_has_data_NonNegative(rxBytes) == rxBytes >= 0

\* Mutant of rx_has_data: if (rxBytes), true of the error value -1 too.
rx_has_data_NonZero(rxBytes) == rxBytes # 0

\* main.c:117  the condition of the if
rx_has_data(rxBytes) == rxBytes > 0

\* main.c:117-118  if (rxBytes > 0) { data[rxBytes] = 0;   (start_time is
\* not read again: the model forgets it)
rx_check_data ==
    /\ pc = "rx_check"
    /\ rx_has_data(rx.rxBytes)
    /\ data' = NullTerminate(data, rx.rxBytes)
    /\ rx' = [rx EXCEPT !.start_time = 0]
    /\ pc' = "rx_set_str"
    /\ UNCHANGED <<boot, ring, offered, tick, payload, nvs, flash, tx, ret, ops, wire>>

\* main.c:117,131  the if is not taken
rx_check_none ==
    /\ pc = "rx_check"
    /\ ~rx_has_data(rx.rxBytes)
    /\ rx' = [rx EXCEPT !.start_time = 0]
    /\ pc' = "rx_delay"
    /\ UNCHANGED <<boot, ring, offered, tick, data, payload, nvs, flash, tx, ret, ops, wire>>

\* main.c:121  nvs_set_str(my_handle, "uart", data); the status is ignored
rx_set_str ==
    /\ pc = "rx_set_str"
    /\ \E ok \in nvs_call_ok(my_handle) :
         /\ nvs' = IF ok THEN nvs_set_str(nvs, Key, data) ELSE nvs
         /\ ret' = [ret EXCEPT !.set = IF ok THEN "OK" ELSE "FAIL"]
    /\ ops' = Append(ops, "write")
    /\ pc' = "rx_commit"
    /\ UNCHANGED <<boot, ring, offered, tick, rx, data, payload, flash, tx, wire>>

\* Mutant of rx_commit: the commit after the write is left out.
rx_commit_Missing ==
    /\ pc = "rx_commit"
    /\ pc' = "rx_speed"
    /\ UNCHANGED <<boot, ring, offered, tick, rx, data, payload, nvs, flash, tx, ret, ops, wire>>

\* main.c:122  nvs_commit(my_handle); the status is ignored
rx_commit ==
    /\ pc = "rx_commit"
    /\ \E ok \in nvs_call_ok(my_handle) :
         /\ flash' = IF ok THEN nvs ELSE flash
         /\ ret' = [ret EXCEPT !.commit = IF ok THEN "OK" ELSE "FAIL"]
    /\ ops' = Append(ops, "commit")
    /\ pc' = "rx_speed"
    /\ UNCHANGED <<boot, ring, offered, tick, rx, data, payload, nvs, tx, wire>>

\* main.c:124-127  speed = (rxBytes / time_taken) * configTICK_RATE_HZ
rx_speed ==
    /\ pc = "rx_speed"
    /\ rx' = [rx EXCEPT !.speed = FloatSpeed(rx.rxBytes, rx.time_taken),
                        !.time_taken = 0]
    /\ pc' = "tx_malloc"
    /\ UNCHANGED <<boot, ring, offered, tick, data, payload, nvs, flash, tx, ret, ops, wire>>

\* --------------------------------------------------------------- tx_task
\* main.c:85-86  data = malloc(RX_BUF_SIZE); data_size = RX_BUF_SIZE
tx_malloc ==
    /\ pc = "tx_malloc"
    /\ \E g \in Garbage : tx' = [tx EXCEPT !.data = g]
    /\ rx' = [NoRx EXCEPT !.rxBytes = rx.rxBytes]
    /\ pc' = "tx_get_str"
    /\ UNCHANGED <<boot, ring, offered, tick, data, payload, nvs, flash, ret, ops, wire>>

\* main.c:89  nvs_get_str(my_handle, "uart", data, &data_size); status ignored
tx_get_str ==
    /\ pc = "tx_get_str"
    /\ \/ /\ my_handle # 0
          /\ tx' = [tx EXCEPT !.data = nvs_get_str(nvs, Key, tx.data, RX_BUF_SIZE)]
          /\ ret' = [ret EXCEPT !.get = nvs_get_status(nvs, Key, RX_BUF_SIZE)]
       \/ /\ tx' = tx
          /\ ret' = [ret EXCEPT !.get = "FAIL"]
    /\ ops' = Append(ops, "read")
    /\ pc' = "send_strlen"
    /\ UNCHANGED <<boot, ring, offered, tick, rx, data, payload, nvs, flash, wire>>

\* -------------------------------------------------------------- sendData
\* main.c:60-61  len = strlen(data); start_time = xTaskGetTickCount()
send_strlen ==
    /\ pc = "send_strlen"
    /\ tx' = [tx EXCEPT !.len = strlen(tx.data), !.start_time = tick]
    /\ pc' = "send_write"
    /\ UNCHANGED <<boot, ring, offered, tick, rx, data, payload, nvs, flash, ret, ops, wire>>

\* main.c:62  txBytes = uart_write_bytes(UART_NUM_1, data, len): the count
\* written, which may be short, or -1 (always -1 when no driver is installed)
send_write ==
    /\ pc = "send_write"
    /\ wire' = <<SubSeq(tx.data, 1, tx.len)>>
    /\ \E n \in (IF driver THEN (-1)..tx.len ELSE {-1}) :
         tx' = [tx EXCEPT !.txBytes = n]
    /\ ops' = Append(ops, "transmit")
    /\ pc' = "send_end"
    /\ UNCHANGED <<boot, ring, offered, tick, rx, data, payload, nvs, flash, ret>>

\* Mutant of send_end: a short or failed write is tried again.
send_end_Retry ==
    /\ pc = "send_end"
    /\ IF tx.txBytes < tx.len
       THEN /\ pc' = "send_write"
            /\ tx' = tx
       ELSE /\ pc' = "send_speed"
            /\ tx' = [tx EXCEPT !.time_taken = TickDiff(tick, tx.start_time),
                                !.start_time = 0, !.data = <<>>]
    /\ wire' = IF tx.txBytes < tx.len THEN wire ELSE NoWire
    /\ ret' = IF tx.txBytes < tx.len THEN ret ELSE [ret EXCEPT !.get = "-"]
    /\ UNCHANGED <<boot, ring, offered, tick, rx, data, payload, nvs, flash, ops>>

\* main.c:63  end_time = xTaskGetTickCount(); time_taken as in rx_end.
\* Nothing reads the replay buffer after the transmit call: the model
\* forgets its content, what was handed to the call and what the read
\* returned.
send_end ==
    /\ pc = "send_end"
    /\ tx' = [tx EXCEPT !.time_taken = TickDiff(tick, tx.start_time),
                        !.start_time = 0, !.data = <<>>]
    /\ wire' = NoWire
    /\ ret' = [ret EXCEPT !.get = "-"]
    /\ pc' = "send_speed"
    /\ UNCHANGED <<boot, ring, offered, tick, rx, data, payload, nvs, flash, ops>>

\* main.c:65-68  speed = (txBytes / time_taken) * configTICK_RATE_HZ
send_speed ==
    /\ pc = "send_speed"
    /\ tx' = [tx EXCEPT !.speed = FloatSpeed(tx.txBytes, tx.time_taken),
                        !.time_taken = 0]
    /\ pc' = "send_erase"
    /\ UNCHANGED <<boot, ring, offered, tick, rx, data, payload, nvs, flash, ret, ops, wire>>

\* main.c:71  nvs_erase_all(my_handle); the status is ignored.  Nothing
\* reads the receive buffer or sendData's locals from here on: the model
\* forgets them (but for len and txBytes, which it keeps to the end of
\* tx_task), and with them what the persist and read calls returned.
send_erase ==
    /\ pc = "send_erase"
    /\ \E ok \in nvs_call_ok(my_handle) :
         /\ nvs' = IF ok THEN nvs_erase_all(nvs) ELSE nvs
         /\ ret' = [NoRet EXCEPT !.erase = IF ok THEN "OK" ELSE "FAIL"]
    /\ tx' = [NoTx EXCEPT !.len = tx.len, !.txBytes = tx.txBytes]
    /\ data' = <<>>
    /\ payload' = <<>>
    /\ wire' = NoWire
    /\ ops' = Append(ops, "erase_all")
    /\ pc' = "send_commit"
    /\ UNCHANGED <<boot, ring, offered, tick, rx, flash>>

\* Mutant of send_commit: the commit after the erase is left out.
send_commit_Missing ==
    /\ pc = "send_commit"
    /\ pc' = "tx_delay"
    /\ UNCHANGED <<boot, ring, offered, tick, rx, data, payload, nvs, flash, tx, ret, ops, wire>>

\* main.c:72-73  nvs_commit(my_handle); the status is ignored; return
send_commit ==
    /\ pc = "send_commit"
    /\ \E ok \in nvs_call_ok(my_handle) :
         /\ flash' = IF ok THEN nvs ELSE flash
         /\ ret' = [ret EXCEPT !.commit2 = IF ok THEN "OK" ELSE "FAIL"]
    /\ ops' = Append(ops, "commit")
    /\ pc' = "tx_delay"
    /\ UNCHANGED <<boot, ring, offered, tick, rx, data, payload, nvs, tx, wire>>

\* Mutant of tx_delay: tx_task written as a task body, while (1) around the
\* replay, which never returns to rx_task.
tx_delay_Loop ==
    /\ pc = "tx_delay"
    /\ tx' = NoTx
    /\ ret' = NoRet
    /\ ops' = <<>>
    /\ pc' = "tx_malloc"
    /\ UNCHANGED <<boot, ring, offered, tick, rx, data, payload, nvs, flash, wire>>

\* main.c:92-94  vTaskDelay(2000 ms); free(data); return to rx_task
tx_delay ==
    /\ pc = "tx_delay"
    /\ tx' = NoTx
    /\ pc' = "rx_delay"
    /\ UNCHANGED <<boot, ring, offered, tick, rx, data, payload, nvs, flash, ret, ops, wire>>

\* main.c:133-134,109  vTaskDelay(3000 ms); the iteration ends (its locals
\* die) and while (1) starts the next one
rx_delay ==
    /\ pc = "rx_delay"
    /\ rx' = NoRx
    /\ data' = <<>>
    /\ payload' = <<>>
    /\ ops' = <<>>
    /\ wire' = NoWire
    /\ pc' = "rx_start"
    /\ UNCHANGED <<boot, ring, offered, tick, nvs, flash, tx, ret>>

\* ------------------------------------------------------------------ spec
\* The steps of app_main (main.c:143-151).
Main == app_uart_init \/ app_nvs_open \/ app_xTaskCreate

\* The steps of the one task app_main creates (main.c:150).
Task ==
    \/ rx_start \/ rx_read_ok \/ rx_read_err \/ rx_end
    \/ rx_check_data \/ rx_check_none
    \/ rx_set_str \/ rx_commit \/ rx_speed
    \/ tx_malloc \/ tx_get_str
    \/ send_strlen \/ send_write \/ send_end \/ send_speed
    \/ send_erase \/ send_commit
    \/ tx_delay \/ rx_delay

Next == Main \/ Task \/ LinkArrive \/ Tick

Spec == Init /\ [][Next]_vars

\* app_main runs to its end; the task has the highest priority
\* (configMAX_PRIORITIES) and every call it makes waits a bounded time, so
\* it always takes its next step.
FairSpec == Spec /\ WF_vars(Main) /\ WF_vars(Task)

\* ------------------------------------------------------------ power loss
\* A reset or power loss (README.md:44) and the restart after it: RAM, the
\* driver, the handle and the task are gone and app_main runs again.  The
\* namespace then holds what was committed; what was written or erased
\* and not committed has reached the flash, or it has not.  (ret and
\* payload keep what the interrupted iteration did, until the next receive
\* call.)
Reset ==
    /\ driver' = FALSE
    /\ my_handle' = 0
    /\ tasks' = {}
    /\ pc' = "app_main"
    /\ ring' = <<>>
    /\ tick' = 0
    /\ rx' = NoRx
    /\ data' = <<>>
    /\ tx' = NoTx
    /\ ops' = <<>>
    /\ wire' = NoWire
    /\ \E s \in {flash, nvs} : nvs' = s /\ flash' = s
    /\ UNCHANGED <<offered, payload, ret>>

ResetNext == Next \/ Reset

\* The program on a device that may lose power at any moment.
ResetSpec == Init /\ [][ResetNext]_vars

\* ======================================================================
\* Properties
\* ======================================================================
\* The operations called so far in this iteration, as a set.
Called == {ops[i] : i \in 1..Len(ops)}

\* The bytes the receive call of this iteration returned.
Received == payload

\* P cut before its first null byte; all of P when it has none.
UpToFirstNull(P) ==
    LET nulls == {i \in 1..Len(P) : P[i] = 0}
        keep  == IF nulls = {} THEN Len(P)
                 ELSE (CHOOSE i \in nulls : \A j \in nulls : i <= j) - 1
    IN  [i \in 1..keep |-> P[i]]

\* No store call of the persist and read steps was made to fail.
PersistAndReadOk == ret.set = "OK" /\ ret.commit = "OK" /\ ret.get # "FAIL"

\* ---------------------------------------------------------------- C1
\* C1: when the receive call returned a payload P with 0 < length(P) <
\* RX_BUF_SIZE and the store calls succeed, the read finds the record and
\* the transmit call is handed exactly P cut before its first null byte
\* (all of P when P has no null byte).
C1_EchoRoundTrip ==
    (/\ pc = "send_end"
     /\ rx.rxBytes > 0 /\ rx.rxBytes < RX_BUF_SIZE
     /\ PersistAndReadOk)
    => (ret.get = "OK" /\ wire = <<UpToFirstNull(Received)>>)

\* A payload with a null byte in it has gone round, cut at the null byte.
C1_Witness ==
    /\ pc = "send_end"
    /\ rx.rxBytes > 1 /\ rx.rxBytes < RX_BUF_SIZE
    /\ PersistAndReadOk
    /\ Received[rx.rxBytes] = 0
    /\ wire = <<SubSeq(Received, 1, rx.rxBytes - 1)>>

\* ---------------------------------------------------------------- C2
\* C2: when the replay step's read of key "uart" returns NOT_FOUND, no
\* transmit call is made in that cycle.
C2_NoTransmitOnNotFound ==
    ret.get = "NOT_FOUND" => ("transmit" \notin Called /\ wire = <<>>)

\* ---------------------------------------------------------------- C3
\* C3: when the commit that follows the write fails, the cycle makes no
\* store read and no transmit call (the code never retries the commit).
C3_NoReplayUncommitted ==
    ret.commit = "FAIL" => ("read" \notin Called /\ "transmit" \notin Called)

\* ---------------------------------------------------------------- C4
\* C4 as claimed: when a receive call returns bytes and more were waiting
\* than it accepts, the bytes beyond those it returned are dropped.
C4_TailDropped ==
    [][(/\ pc = "rx_read" /\ pc' = "rx_end"
        /\ rx'.rxBytes > 0
        /\ Len(ring) > RX_BUF_SIZE)
       => ring' = <<>>]_vars

\* C4 as amended: a receive call returns the first min(waiting, RX_BUF_SIZE)
\* bytes of the driver's ring; the bytes beyond those stay in the ring in
\* arrival order, new bytes are queued behind them, and so they are the
\* first bytes of the payload of a later receive call.
C4_TailBuffered ==
    [][/\ (pc = "rx_read" /\ pc' = "rx_end" /\ rx'.rxBytes > 0)
          => /\ rx'.rxBytes = Min(Len(ring), RX_BUF_SIZE)
             /\ payload' = SubSeq(ring, 1, rx'.rxBytes)
             /\ data' = payload'
             /\ ring = payload' \o ring'
       /\ ~(pc = "rx_read" /\ pc' = "rx_end" /\ rx'.rxBytes > 0)
          => (ring' = ring \/ \E b \in Bytes : ring' = Append(ring, b))
      ]_vars

\* A receive call has returned all it accepts and offered bytes beyond
\* those sit in the ring for the next call.
C4_Witness ==
    /\ pc = "rx_end"
    /\ rx.rxBytes = RX_BUF_SIZE
    /\ ring # <<>>

\* ---------------------------------------------------------------- C5
\* C5 as claimed: the payload handed to the store write has at most
\* RX_BUF_SIZE - 1 bytes before its terminator.
C5_PayloadBelowCapacity ==
    pc = "rx_set_str" => strlen(data) <= RX_BUF_SIZE - 1

\* C5 as amended: the payload handed to the store write, and every record
\* in the store, has at most RX_BUF_SIZE bytes before its terminator.
C5_PayloadAtMostCapacity ==
    /\ pc = "rx_set_str" => strlen(data) <= RX_BUF_SIZE
    /\ \A k \in DOMAIN nvs : Len(nvs[k]) <= RX_BUF_SIZE
    /\ \A k \in DOMAIN flash : Len(flash[k]) <= RX_BUF_SIZE

\* A payload of exactly RX_BUF_SIZE bytes has been written to the store.
C5_Witness ==
    /\ pc = "rx_commit"
    /\ ret.set = "OK"
    /\ Len(nvs[Key]) = RX_BUF_SIZE

\* ---------------------------------------------------------------- C6
\* C6: once erase_all and the commit after it have both succeeded, a read
\* of key "uart" returns NOT_FOUND and nothing is left in the committed
\* store, through the delays and while the task waits at the next receive
\* call.
C6_ErasedReadsNotFound ==
    (/\ pc \in {"tx_delay", "rx_delay", "rx_start", "rx_read"}
     /\ ret.erase = "OK" /\ ret.commit2 = "OK")
    => (/\ nvs_get_status(nvs, Key, RX_BUF_SIZE) = "NOT_FOUND"
        /\ Key \notin DOMAIN flash)

\* The erase step of a cycle has just succeeded.
C6_Witness ==
    /\ pc = "tx_delay"
    /\ rx.rxBytes > 0
    /\ ret.erase = "OK" /\ ret.commit2 = "OK"
    /\ ops[Len(ops) - 1] = "erase_all"

\* ---------------------------------------------------------------- C7
\* The receive call of this iteration has returned no bytes.
NoBytes == pc \in {"rx_end", "rx_check", "rx_delay"} /\ rx.rxBytes <= 0

\* C7: a receive call that returns 0 or a negative value, and every step
\* after it until the next iteration starts, leaves the store (both views)
\* unchanged, calls no store operation and no transmit, and stays on the
\* path back to the next receive call.
C7_NoBytesNoEffect ==
    [][((pc = "rx_read" /\ pc' = "rx_end" /\ rx'.rxBytes <= 0) \/ NoBytes)
       => (/\ UNCHANGED <<boot, nvs, flash, wire>>
           /\ ops' = <<>>
           /\ pc' \in {"rx_end", "rx_check", "rx_delay", "rx_start"})]_vars

\* An empty or failed receive has been skipped over with a record (left by
\* a failed erase) still in the store.
C7_Witness ==
    /\ pc = "rx_delay"
    /\ rx.rxBytes <= 0
    /\ Key \in DOMAIN nvs

\* ---------------------------------------------------------------- C8
\* C8: no throughput sample is the result of a division by zero (infinite
\* or NaN), for the reception and for the transmission measurement.
C8_NoDivisionByZero ==
    /\ rx.speed.class \in {"none", "finite"}
    /\ tx.speed.class \in {"none", "finite"}

\* ---------------------------------------------------------------- C9
CycleOrder == <<"write", "commit", "read", "transmit", "erase_all", "commit">>

\* C9: the operations called since the receive call are always an initial
\* part of write, commit, read, transmit, erase_all, commit; none is called
\* before the receive call has returned bytes; and all six have been called,
\* in that order, when a cycle that received bytes reaches its delays.
C9_FixedOrder ==
    /\ \E n \in 0..Len(CycleOrder) : ops = SubSeq(CycleOrder, 1, n)
    /\ pc \in {"rx_start", "rx_read", "rx_end", "rx_check"} => ops = <<>>
    /\ (pc \in {"tx_delay", "rx_delay"} /\ rx.rxBytes > 0) => ops = CycleOrder

\* A cycle that received bytes has made all its calls.
C9_Witness ==
    /\ pc = "rx_delay"
    /\ rx.rxBytes > 0
    /\ ops = CycleOrder

\* --------------------------------------------------------------- C10
\* C10: whatever the receive, store and transmit calls return, the task is
\* again and again back at the receive call, and the call returns.
C10_AlwaysBackToReceive ==
    /\ []<>(pc = "rx_read")
    /\ []<>(pc = "rx_end")

\* The task is back at the receive call after a cycle whose commits and
\* erase all failed: the record is in the handle's view and not committed.
C10_Witness ==
    /\ pc = "rx_read"
    /\ Key \in DOMAIN nvs
    /\ Key \notin DOMAIN flash

\* --------------------------------------------------------------- C11
\* The positions inside tx_task and sendData: from the call tx_task()
\* (main.c:130) to its return.
ReplayPcs == {"tx_malloc", "tx_get_str", "send_strlen", "send_write",
              "send_end", "send_speed", "send_erase", "send_commit", "tx_delay"}

Calls(op) == Cardinality({i \in 1..Len(ops) : ops[i] = op})

\* C12: when erase_all or the commit after it failed, the erase has been
\* attempted again (erase_all called at least twice) by the time the cycle
\* is back in its delays on the way to the receive call.
C12_FailedEraseRetried ==
    (/\ pc \in {"tx_delay", "rx_delay"}
     /\ (ret.erase = "FAIL" \/ ret.commit2 = "FAIL"))
    => Calls("erase_all") >= 2

\* --------------------------------------------------------------- C13
\* C13: the task exists, and a Transport or Store operation has been
\* called, only when start-up installed the UART driver and opened the
\* store.
C13_NoCycleWithoutCapabilities ==
    (tasks # {} \/ pc \notin {"app_main", "app_nvs", "app_create"} \/ ops # <<>>)
    => (driver /\ my_handle # 0)

\* --------------------------------------------------------------- C14
\* The persist step has written and committed, the erase step has not begun.
Persisted ==
    /\ pc \in {"rx_speed", "tx_malloc", "tx_get_str", "send_strlen",
               "send_write", "send_end", "send_speed", "send_erase"}
    /\ ret.set = "OK" /\ ret.commit = "OK"

\* C14: the operation called next after a write or an erase_all is the
\* commit; and from the persist step's successful commit until the erase
\* step the committed store holds the cycle's payload (cut before its
\* first null byte) under "uart", so that after a reset at any of these
\* points the restarted program finds it there.
C14_CommittedBeforeNext ==
    [][/\ (/\ ops # <<>> /\ ops[Len(ops)] \in {"write", "erase_all"}
           /\ ops' # ops /\ pc' # "app_main")
          => ops' = Append(ops, "commit")
       /\ Persisted
          => /\ Key \in DOMAIN flash
             /\ flash[Key] = UpToFirstNull(payload)
       /\ (Persisted /\ pc' = "app_main")
          => /\ Key \in DOMAIN nvs'
             /\ nvs'[Key] = UpToFirstNull(payload)
             /\ flash' = nvs'
      ]_vars

\* Power was lost between the persist step's commit and the erase step, and
\* the restarted program has the payload in its store.
C14_Witness ==
    /\ pc = "app_main"
    /\ ret.set = "OK" /\ ret.commit = "OK" /\ ret.erase = "-"
    /\ payload # <<>>
    /\ Key \in DOMAIN nvs
    /\ nvs[Key] = UpToFirstNull(payload)

\* --------------------------------------------------------------- C15
\* C15: the store (the handle's view and the committed content) holds
\* nothing or one value under the one key "uart"; a write that succeeds
\* leaves exactly the new payload (cut before its first null byte) under
\* that key, whatever the store held before.
C15_AtMostOneRecord ==
    [][/\ DOMAIN nvs \subseteq {Key}
       /\ DOMAIN flash \subseteq {Key}
       /\ (pc = "rx_set_str" /\ pc' = "rx_commit" /\ ret'.set = "OK")
          => nvs' = [k \in {Key} |-> UpToFirstNull(payload)]
      ]_vars

\* A write has succeeded while the record of an earlier cycle, with another
\* value, is still in the committed store.
C15_Witness ==
    /\ pc = "rx_commit"
    /\ ret.set = "OK"
    /\ Key \in DOMAIN flash
    /\ DOMAIN nvs = {Key}
    /\ nvs[Key] = UpToFirstNull(payload)
    /\ flash[Key] # nvs[Key]

\* --------------------------------------------------------------- C16
\* The transmit call has returned fewer bytes than it was handed, or -1.
ShortTx ==
    /\ pc \in {"send_end", "send_speed", "send_erase", "send_commit", "tx_delay"}
    /\ tx.txBytes < tx.len

\* C16: after a transmit call that wrote fewer bytes than requested or
\* failed, the cycle has made one transmit call and makes no other: the
\* calls that follow are erase_all and commit, both made when tx_task
\* ends; the only way on is the return to rx_task's delay before the
\* receive call, and it is always taken.
C16_ShortTransmitGoesOn ==
    /\ [][ShortTx
          => /\ Calls("transmit") = 1
             /\ ops' \in {ops, Append(ops, "erase_all"), Append(ops, "commit")}
             /\ pc' \in {"send_end", "send_speed", "send_erase", "send_commit",
                        "tx_delay", "rx_delay"}
             /\ pc = "tx_delay" => ops = CycleOrder
             /\ pc' = "rx_delay" <=> ~ShortTx'
         ]_vars
    /\ []<>(~ShortTx)

\* A transmit call handed two bytes or more has written one of them, and
\* the cycle is at the end of its erase step.
C16_Witness ==
    /\ pc = "tx_delay"
    /\ tx.txBytes = 1 /\ tx.len > 1
    /\ ops = CycleOrder

\* --------------------------------------------------------------- C17
\* C17: for the reception and for the transmission measurement, the
\* elapsed ticks computed at the end sample are a value of the unsigned
\* tick width, never negative, and the start sample plus the elapsed ticks
\* is the end sample modulo 2^width: also when the counter has wrapped in
\* between.
C17_ElapsedWrapSafe ==
    [][/\ (pc = "rx_end" /\ pc' = "rx_check")
          => /\ rx'.time_taken \in 0..(TickMod - 1)
             /\ (rx.start_time + rx'.time_taken) % TickMod = tick
       /\ (pc = "send_end" /\ pc' = "send_speed")
          => /\ tx'.time_taken \in 0..(TickMod - 1)
             /\ (tx.start_time + tx'.time_taken) % TickMod = tick
       /\ rx.time_taken >= 0
       /\ tx.time_taken >= 0
      ]_vars

\* The elapsed ticks of a reception have been computed from an end sample
\* that is below the start sample: the tick counter wrapped in between.
C17_Witness ==
    /\ pc = "rx_check"
    /\ rx.time_taken > 0
    /\ rx.start_time + rx.time_taken >= TickMod

\* --------------------------------------------------------------- C18
\* C18: after a write that succeeded, the replay's read of "uart" into
\* its RX_BUF_SIZE buffer does not fail for lack of space.
C18_RecordFitsReplayBuffer ==
    ret.set = "OK" => ret.get # "INVALID_LENGTH"

\* --------------------------------------------------------------- C19
\* C19: when the terminator has been written, the count rxBytes it was
\* written at is positive and at most RX_BUF_SIZE, so that the buffer
\* holds rxBytes bytes and the 0 after them within its RX_BUF_SIZE + 1
\* bytes; and with a count of 0 or below the task is never at a position
\* after the test of the count and nothing has been written to the buffer.
C19_TerminatorInBounds ==
    /\ pc = "rx_set_str"
       => /\ 0 < rx.rxBytes /\ rx.rxBytes <= RX_BUF_SIZE
          /\ rx.rxBytes < RxBufBytes
          /\ Len(data) = rx.rxBytes + 1
          /\ data[rx.rxBytes + 1] = 0
          /\ SubSeq(data, 1, rx.rxBytes) = payload
    /\ rx.rxBytes <= 0
       => /\ pc \in {"app_main", "app_nvs", "app_create", "rx_start",
                     "rx_read", "rx_end", "rx_check", "rx_delay"}
          /\ data = <<>>

\* The terminator has been written after RX_BUF_SIZE bytes, in the last
\* byte of the buffer.
C19_Witness ==
    /\ pc = "rx_set_str"
    /\ rx.rxBytes = RX_BUF_SIZE
    /\ Len(data) = RxBufBytes
    /\ data[RxBufBytes] = 0

====
